---- MODULE Spec2Model ----
(***************************************************************************)
(* Model of src/ant-v.py: the trial loop of a Posner / ANT cueing          *)
(* experiment.  The state is the script's module-level variables (the      *)
(* trial list, the loop's locals key, rt, target, target_pos, the shared   *)
(* stimulus objects' positions, the data file) and the two devices it      *)
(* drives (the screen's drawing buffer and the frames committed to the     *)
(* display).  One action models each block of the loop body between two    *)
(* blocking waits.                                                         *)
(***************************************************************************)
EXTENDS Integers, Sequences, FiniteSets, TLC

\* ----------------------------------------------------------------- bounds
\* Longest trial list explored.
MaxTrials == 2

\* ------------------------------------------------------ program constants
CUE_DISPLAY_DURATION == 100
CUE_TARGET_INTERVAL == 400
TARGET_DISPLAY_DURATION == 200
MAX_RESPONSE_DURATION == 1700
FEEDBACK_DURATION == 400
BASELINE_MIN == 1500
BASELINE_SPAN == 2000

LEFT_RESPONSE_KEY == "K_f"
RIGHT_RESPONSE_KEY == "K_j"

\* The vertical offset of the two frames; a positive number of pixels that
\* depends on the font (h + 20), taken as one unit here.
shift == 1

\* Python's None and a present value, as a sequence of length 0 or 1.
None == <<>>
Some(x) == <<x>>

\* ------------------------------------------------------------- the trials
\* The columns of the trials file, in file order.
Columns ==
  <<"cue_up", "cue_down", "arrow_direction", "flanker_congruency", "target_position">>

ColumnIndex(name) == CHOOSE c \in 1..Len(Columns) : Columns[c] = name

\* trial.<name> of a row produced by trials.itertuples(index=False)
Field(trial, name) == trial[ColumnIndex(name)]

\* The rows a trials file may hold.  Two are malformed: a target_position
\* that is neither 'up' nor 'down', an arrow_direction that is neither 'left'
\* nor 'right'.  The last spells its flanker_congruency in full.
TrialRows ==
  { <<TRUE,  FALSE, "left",  "cong",   "up">>,
    <<FALSE, FALSE, "left",  "incong", "down">>,
    <<FALSE, TRUE,  "right", "incong", "up">>,
    <<TRUE,  TRUE,  "right", "cong",   "down">>,
    <<TRUE,  FALSE, "left",  "cong",   "middle">>,
    <<FALSE, TRUE,  "both",  "incong", "down">>,
    <<FALSE, FALSE, "right", "congruent", "up">> }

ValidTrial(trial) ==
  /\ Field(trial, "arrow_direction") \in {"left", "right"}
  /\ Field(trial, "target_position") \in {"up", "down"}

TrialLists == UNION { [1..n -> TrialRows] : n \in 0..MaxTrials }

\* ------------------------------------------------------------ the stimuli
Arrows == {"arrows_cong_left", "arrows_cong_right",
           "arrows_incong_left", "arrows_incong_right"}

\* The five arrows each stimulus is made of, left to right.
ArrowText(stim) ==
  CASE stim = "arrows_cong_left"    -> <<"<", "<", "<", "<", "<">>
    [] stim = "arrows_cong_right"   -> <<">", ">", ">", ">", ">">>
    [] stim = "arrows_incong_left"  -> <<">", ">", "<", ">", ">">>
    [] stim = "arrows_incong_right" -> <<"<", "<", ">", "<", "<">>

\* A bug of the dictionary: the neutral and the negative cross exchanged.
fixation_crossesExchanged(cross_type) ==
  CASE cross_type = "neutral"  -> "cross_red"
    [] cross_type = "positive" -> "cross_green"
    [] cross_type = "negative" -> "cross_black"

fixation_crosses(cross_type) ==
  CASE cross_type = "neutral"  -> "cross_black"
    [] cross_type = "positive" -> "cross_green"
    [] cross_type = "negative" -> "cross_red"

\* The position each fixed stimulus is constructed with.
FixedPosition(stim) ==
  CASE stim \in {"box_top", "cue_top"}       -> <<0, shift>>
    [] stim \in {"box_bottom", "cue_bottom"} -> <<0, 0 - shift>>
    [] OTHER                                 -> <<0, 0>>

VARIABLES
  trials,        \* the shuffled trial list the loop iterates
  i,             \* 1-based index of the trial the loop is at
  pc,            \* the loop body's position
  key, rt,       \* the locals assigned at the response wait
  target,        \* the local naming the selected arrows stimulus
  target_pos,    \* the local holding the target's position (unbound = None)
  position,      \* the position attribute of each arrows stimulus object
  screen,        \* the drawing buffer: the stimuli drawn since the last clear
  frames,        \* the frames committed to the display, oldest first
  exp_data,      \* the rows added to exp.data
  presses,       \* the key presses made during the last response wait
  measured,      \* what the last exp.keyboard.wait returned, before adjustment
  sinceOnset,    \* ms elapsed since the last target was committed
  waited,        \* the duration of the last timed wait
  pending        \* the key events queued and not yet read or cleared

vars == <<trials, i, pc, key, rt, target, target_pos, position, screen, frames,
          exp_data, presses, measured, sinceOnset, waited, pending>>

\* The names given to exp.add_data_variable_names.
data_variable_names == Columns \o <<"response_key", "reaction_time">>

\* --------------------------------------------------------- the key presses
Keys == {LEFT_RESPONSE_KEY, RIGHT_RESPONSE_KEY, "K_g"}

\* Times, in ms after the response wait begins, at which a key goes down.
PressTimes == {350, 1600}

KeyEvents == [key : Keys, at : PressTimes]

\* What the participant does while the target is shown: no press, or one
\* (a clock wait reads no key, so which key it is makes no difference).
EarlyPresses == {<<>>, <<LEFT_RESPONSE_KEY>>}

\* What the participant does during one response wait: no press, or one press
\* of any key at either time (the wait is over at the first press, so a later
\* one would fall outside it).
PressSeqs == {<<>>} \cup { <<e>> : e \in KeyEvents }

\* Python's floats, with 11 bits of precision in place of the 53 of a
\* double: every whole number of ms below 2048 is a float, and from 2048 to
\* 4096 only the even ones are.  a + b is the float nearest to the sum, and of
\* two equally near the one whose last bit is 0.  (In doubles the same
\* happens 42 binary places further down: 1500 + 1999.9999999999998 is 3500.0.)
FloatAdd(a, b) ==
  LET s == a + b
  IN  IF s < 2048 \/ s % 2 = 0 THEN s
      ELSE IF (s \div 2) % 2 = 0 THEN s - 1 ELSE s + 1

\* random.uniform(0, 2000) is 0 + 2000 * random.random(), a float from 0 up to
\* the largest float below 2000: the two ends of that range.
JitterChoices == {0, BASELINE_SPAN - 1}

\* A bug of the baseline: the fixed part left out.
BaselineWaitNoFloor(jitter) == jitter

\* 1500 + random.uniform(0, 2000)
BaselineWait(jitter) == FloatAdd(BASELINE_MIN, jitter)

\* ---------------------------------------------------------------- drawing
\* stim.present(clear, update=False) on drawing buffer buf
Present(buf, stim, pos, clear) ==
  (IF clear THEN {} ELSE buf) \cup {[stim |-> stim, position |-> pos]}

\* A bug of display: the two cue flags taken for each other.
displayFlagsSwapped(cross_type, top_cued, bottom_cued) ==
  LET cross  == fixation_crosses(cross_type)
      top    == IF bottom_cued THEN "cue_top" ELSE "box_top"
      bottom == IF top_cued THEN "cue_bottom" ELSE "box_bottom"
      b1     == Present({}, cross, FixedPosition(cross), TRUE)
      b2     == Present(b1, top, FixedPosition(top), FALSE)
  IN  Present(b2, bottom, FixedPosition(bottom), FALSE)

\* display(cross_type, top_cued, bottom_cued): the buffer its third present
\* commits to the display.
display(cross_type, top_cued, bottom_cued) ==
  LET cross  == fixation_crosses(cross_type)
      top    == IF top_cued THEN "cue_top" ELSE "box_top"
      bottom == IF bottom_cued THEN "cue_bottom" ELSE "box_bottom"
      b1     == Present({}, cross, FixedPosition(cross), TRUE)
      b2     == Present(b1, top, FixedPosition(top), FALSE)
  IN  Present(b2, bottom, FixedPosition(bottom), FALSE)

\* One frame committed to the display (a present with update=True), with the
\* trial and the loop position that committed it.
Frame(content) == [trial |-> i, phase |-> pc, content |-> content]

\* ------------------------------------------------------ the loop's helpers
\* A bug of the selection: the two incongruent stimuli taken for each other.
SelectTargetIncongSwapped(trial) ==
  IF Field(trial, "arrow_direction") = "left"
  THEN IF Field(trial, "flanker_congruency") = "cong"
       THEN "arrows_cong_left" ELSE "arrows_incong_right"
  ELSE IF Field(trial, "flanker_congruency") = "cong"
       THEN "arrows_cong_right" ELSE "arrows_incong_left"

\* "select target"
SelectTarget(trial) ==
  IF Field(trial, "arrow_direction") = "left"
  THEN IF Field(trial, "flanker_congruency") = "cong"
       THEN "arrows_cong_left" ELSE "arrows_incong_left"
  ELSE IF Field(trial, "flanker_congruency") = "cong"
       THEN "arrows_cong_right" ELSE "arrows_incong_right"

\* A bug of the positioning: target_pos is worked out only while unbound.
TargetPosKeepsFirst(trial, old) ==
  IF old # None THEN old
  ELSE IF Field(trial, "target_position") = "up" THEN Some(<<0, shift>>)
  ELSE IF Field(trial, "target_position") = "down" THEN Some(<<0, 0 - shift>>)
  ELSE old

\* "display target": the value of target_pos after the two ifs, given its
\* value before them (None while the name is still unbound).
TargetPos(trial, old) ==
  LET afterDown == IF Field(trial, "target_position") = "down"
                   THEN Some(<<0, 0 - shift>>) ELSE old
  IN  IF Field(trial, "target_position") = "up"
      THEN Some(<<0, shift>>) ELSE afterDown

\* A bug of the timed wait: it ends at once when a key is down.
ClockWaitEndsAtKey(duration, events) == IF events = <<>> THEN duration ELSE 0

\* exp.clock.wait(duration): how long it lasts, given the keys pressed
\* meanwhile.
ClockWait(duration, events) == duration

\* What stands for the result of a call that does not return.
NeverReturns == <<"never">>

\* exp.keyboard.wait(keys, duration): the first press of a key in keys (of any
\* key when keys is None) made before the duration runs out, with the time it
\* was made at; (None, None) when the duration runs out first.  With no
\* duration (None) the call returns only at such a press.
RECURSIVE KeyboardWait(_, _, _)
KeyboardWait(events, keys, duration) ==
  IF events = <<>>
  THEN IF duration = None THEN NeverReturns ELSE <<None, None>>
  ELSE LET e == Head(events)
       IN  IF /\ duration = None \/ e.at < duration[1]
              /\ keys = None \/ e.key \in keys[1]
           THEN <<Some(e.key), Some(e.at)>>
           ELSE KeyboardWait(Tail(events), keys, duration)

\* A bug of the wait: no duration given, as in the wait of line 164.
ResponseWaitNoDuration(events) == KeyboardWait(events, None, None)

\* key, rt = exp.keyboard.wait(duration=MAX_RESPONSE_DURATION)
ResponseWait(events) == KeyboardWait(events, None, Some(MAX_RESPONSE_DURATION))

\* Bugs of the adjustment: the offset forgotten; a timeout recorded as the
\* full window.
AdjustRtNoOffset(m) == m
AdjustRtTimeoutAsMax(m) ==
  Some((IF m # None THEN m[1] ELSE MAX_RESPONSE_DURATION) + TARGET_DISPLAY_DURATION)

\* if rt is not None: rt = rt + TARGET_DISPLAY_DURATION
AdjustRt(m) == IF m # None THEN Some(m[1] + TARGET_DISPLAY_DURATION) ELSE m

\* A bug of the row: the key left out.
RecordWithoutKey(trial, k, r) == trial \o <<r>>

\* list(trial) + [key, rt]
Record(trial, k, r) == trial \o <<k, r>>

\* A bug of the feedback: the answer is judged by the stimulus shown, and
\* only the two congruent stimuli are looked for.
CorrectByStimulus(k, trial) ==
  \/ k = Some(LEFT_RESPONSE_KEY) /\ SelectTarget(trial) = "arrows_cong_left"
  \/ k = Some(RIGHT_RESPONSE_KEY) /\ SelectTarget(trial) = "arrows_cong_right"

\* A bug of the feedback: any recognized key counts as correct.
CorrectAnyRecognized(k, trial) ==
  k = Some(LEFT_RESPONSE_KEY) \/ k = Some(RIGHT_RESPONSE_KEY)

\* Bugs of the data file: each row replaces the rows before it; a trial
\* without a response is not written.
AddDataOverwrites(data, row) == <<row>>
AddDataSkipsTimeouts(data, row) ==
  IF row[Len(row)] = None THEN data ELSE Append(data, row)

\* exp.data.add(row)
AddData(data, row) == Append(data, row)

\* The condition of the feedback's if.
Correct(k, trial) ==
  \/ k = Some(LEFT_RESPONSE_KEY) /\ Field(trial, "arrow_direction") = "left"
  \/ k = Some(RIGHT_RESPONSE_KEY) /\ Field(trial, "arrow_direction") = "right"

\* ------------------------------------------------------------------- Init
\* The state when the for loop is entered: nothing recorded, nothing drawn but
\* the blank screen, the arrows where they were constructed.
Init ==
  /\ trials \in TrialLists
  /\ i = 1
  /\ pc = IF trials = <<>> THEN "end" ELSE "baseline"
  /\ key = None
  /\ rt = None
  /\ target = None
  /\ target_pos = None
  /\ position = [a \in Arrows |-> <<0, 0>>]
  /\ screen = {}
  /\ frames = <<>>
  /\ exp_data = <<>>
  /\ presses = <<>>
  /\ measured = <<None, None>>
  /\ sinceOnset = None
  /\ waited = 1000
  /\ pending = <<>>

\* ---------------------------------------------------------------- actions
\* Lines 169-170: the default screen, then the jittered baseline wait.
Baseline ==
  /\ pc = "baseline"
  /\ screen' = display("neutral", FALSE, FALSE)
  /\ frames' = Append(frames, Frame(screen'))
  /\ \E jitter \in JitterChoices : waited' = BaselineWait(jitter)
  /\ pc' = "cue"
  /\ UNCHANGED <<pending, trials, i, key, rt, target, target_pos, position, exp_data,
                 presses, measured, sinceOnset>>

\* Lines 172-173: the cue.
Cue ==
  /\ pc = "cue"
  /\ screen' = display("neutral", Field(trials[i], "cue_up"), Field(trials[i], "cue_down"))
  /\ frames' = Append(frames, Frame(screen'))
  /\ waited' = CUE_DISPLAY_DURATION
  /\ pc' = "gap"
  /\ UNCHANGED <<pending, trials, i, key, rt, target, target_pos, position, exp_data,
                 presses, measured, sinceOnset>>

\* Lines 174-175: the cue removed, the cue-target interval.
Gap ==
  /\ pc = "gap"
  /\ screen' = display("neutral", FALSE, FALSE)
  /\ frames' = Append(frames, Frame(screen'))
  /\ waited' = CUE_TARGET_INTERVAL
  /\ pc' = "target"
  /\ UNCHANGED <<pending, trials, i, key, rt, target, target_pos, position, exp_data,
                 presses, measured, sinceOnset>>

\* Lines 177-198: the target is selected, moved to its frame and shown where
\* the stimulus object then is.
\* display() commits the frames without the target, then target.present
\* draws the arrows over them and commits again.
Target ==
  /\ pc = "target"
  /\ LET t  == SelectTarget(trials[i])
         tp == TargetPos(trials[i], target_pos)
     IN  /\ tp # None
         /\ target' = Some(t)
         /\ target_pos' = tp
         /\ position' = [position EXCEPT ![t] = tp[1]]
         /\ screen' = Present(display("neutral", FALSE, FALSE), t, position'[t], FALSE)
         /\ frames' = frames \o <<Frame(display("neutral", FALSE, FALSE)),
                                  Frame(screen')>>
  /\ \E early \in EarlyPresses :
       /\ pending' = early
       /\ waited' = ClockWait(TARGET_DISPLAY_DURATION, early)
       /\ sinceOnset' = Some(ClockWait(TARGET_DISPLAY_DURATION, early))
  /\ pc' = "blank"
  /\ UNCHANGED <<trials, i, key, rt, exp_data, presses, measured>>

\* Line 195 with target_pos never assigned: NameError, the script dies.
TargetNameError ==
  /\ pc = "target"
  /\ TargetPos(trials[i], target_pos) = None
  /\ target' = Some(SelectTarget(trials[i]))
  /\ pc' = "error"
  /\ UNCHANGED <<pending, trials, i, key, rt, target_pos, position, screen, frames,
                 exp_data, presses, measured, sinceOnset, waited>>

\* Line 199: the target removed.
Blank ==
  /\ pc = "blank"
  /\ screen' = display("neutral", FALSE, FALSE)
  /\ frames' = Append(frames, Frame(screen'))
  /\ pc' = "response"
  /\ UNCHANGED <<pending, trials, i, key, rt, target, target_pos, position, exp_data,
                 presses, measured, sinceOnset, waited>>

\* Lines 201-204: the response wait, the adjustment of rt, the data row.
\* exp.keyboard.wait empties the event queue before it waits.  A wait that
\* does not return leaves the script in it for good.
Response ==
  /\ pc = "response"
  /\ pending' = <<>>
  /\ \E events \in PressSeqs :
       LET r == ResponseWait(events)
       IN  IF r = NeverReturns
           THEN /\ presses' = events
                /\ pc' = "hung"
                /\ UNCHANGED <<measured, key, rt, exp_data, waited, sinceOnset>>
           ELSE LET d == IF r[2] = None THEN MAX_RESPONSE_DURATION ELSE r[2][1]
                IN  /\ presses' = events
                    /\ measured' = r
                    /\ key' = r[1]
                    /\ rt' = AdjustRt(r[2])
                    /\ exp_data' =
                         AddData(exp_data, Record(trials[i], r[1], AdjustRt(r[2])))
                    /\ waited' = d
                    /\ sinceOnset' = Some(sinceOnset[1] + d)
                    /\ pc' = "feedback"
  /\ UNCHANGED <<trials, i, target, target_pos, position, screen, frames>>

\* Lines 206-213 and the loop's step to the next row.
Feedback ==
  /\ pc = "feedback"
  /\ screen' = display(IF Correct(key, trials[i]) THEN "positive" ELSE "negative",
                       FALSE, FALSE)
  /\ frames' = Append(frames, Frame(screen'))
  /\ waited' = FEEDBACK_DURATION
  /\ i' = i + 1
  /\ pc' = IF i < Len(trials) THEN "baseline" ELSE "end"
  /\ presses' = <<>>
  /\ measured' = <<None, None>>
  /\ sinceOnset' = None
  /\ UNCHANGED <<pending, trials, key, rt, target, target_pos, position, exp_data>>

\* Line 215: control.end()
End ==
  /\ pc = "end"
  /\ pc' = "done"
  /\ UNCHANGED <<pending, trials, i, key, rt, target, target_pos, position, screen, frames,
                 exp_data, presses, measured, sinceOnset, waited>>

Next ==
  \/ Baseline
  \/ Cue
  \/ Gap
  \/ Target
  \/ TargetNameError
  \/ Blank
  \/ Response
  \/ Feedback
  \/ End

Spec == Init /\ [][Next]_vars

\* The script is one sequential flow of control: while a statement can run,
\* it does.
FairSpec == Spec /\ WF_vars(Next)

TypeOK ==
  /\ pc \in {"baseline", "cue", "gap", "target", "blank", "response", "feedback",
             "end", "done", "error", "hung"}
  /\ i \in 1..(Len(trials) + 1)
  /\ Len(exp_data) <= Len(trials)

\* ------------------------------------------------- reading the data rows
ResponseKeyOf(row) == row[Len(row) - 1]
ReactionTimeOf(row) == row[Len(row)]
TrialFieldsOf(row) == SubSeq(row, 1, Len(row) - 2)

\* The frames trial n committed, oldest first, and what they show.
TrialFrames(n) == SelectSeq(frames, LAMBDA f : f.trial = n)
TrialContents(n) == [k \in 1..Len(TrialFrames(n)) |-> TrialFrames(n)[k].content]

\* The visual states of the display.
Fixation(colour) ==
  { [stim |-> colour, position |-> <<0, 0>>],
    [stim |-> "box_top", position |-> <<0, shift>>],
    [stim |-> "box_bottom", position |-> <<0, 0 - shift>>] }
NeutralFixation == Fixation("cross_black")

\* The direction each response key stands for.
KeyDirection(k) ==
  CASE k = LEFT_RESPONSE_KEY  -> "left"
    [] k = RIGHT_RESPONSE_KEY -> "right"
    [] OTHER                  -> "none"

\* ------------------------------------------------------------------ claims

\* C1: when the response wait returns a key with measured time m, the row added
\* for the trial holds reaction_time = m + TARGET_DISPLAY_DURATION, whatever
\* the key.
C1_ReactionTimeOffset ==
  (pc = "feedback" /\ measured[1] # None /\ measured[2] # None) =>
     /\ Len(exp_data) = i
     /\ ReactionTimeOf(exp_data[i]) = Some(measured[2][1] + TARGET_DISPLAY_DURATION)

\* A wrong key, pressed late, keeps its reaction time.
C1_Witness ==
  /\ pc = "feedback"
  /\ Field(trials[i], "arrow_direction") = "left"
  /\ measured = <<Some(RIGHT_RESPONSE_KEY), Some(1600)>>
  /\ ReactionTimeOf(exp_data[i]) = Some(1800)

\* C2: when no key is pressed during the response wait, the row added for the
\* trial holds response_key = None and reaction_time = None, after all of the
\* trial's fields.
C2_TimeoutRecord ==
  (pc = "feedback" /\ presses = <<>>) =>
     /\ Len(exp_data) = i
     /\ ResponseKeyOf(exp_data[i]) = None
     /\ ReactionTimeOf(exp_data[i]) = None
     /\ Len(exp_data[i]) = Len(data_variable_names)
     /\ TrialFieldsOf(exp_data[i]) = trials[i]

C2_Witness ==
  /\ pc = "feedback"
  /\ presses = <<>>
  /\ exp_data[i] = trials[i] \o <<None, None>>

\* C3: the feedback frame of a trial shows the positive cross exactly when the
\* recorded key stands for the trial's arrow_direction, and the negative
\* cross in every other case.
C3_FeedbackColour ==
  \A n \in 1..Len(frames) :
    frames[n].phase = "feedback" =>
      LET k   == ResponseKeyOf(exp_data[frames[n].trial])
          dir == Field(trials[frames[n].trial], "arrow_direction")
          ok  == k # None /\ KeyDirection(k[1]) = dir
      IN  frames[n].content = Fixation(IF ok THEN "cross_green" ELSE "cross_red")

\* A session with a correct response and a timeout behind it.
C3_Witness ==
  /\ pc = "done"
  /\ \E n \in 1..Len(frames) :
       /\ frames[n].phase = "feedback"
       /\ frames[n].content = Fixation("cross_green")
  /\ \E n \in 1..Len(frames) :
       /\ frames[n].phase = "feedback"
       /\ ResponseKeyOf(exp_data[frames[n].trial]) = None
       /\ frames[n].content = Fixation("cross_red")

\* A frame that shows the neutral fixation with one arrows stimulus over it.
IsTargetFrame(content) ==
  \E a \in Arrows, y \in {shift, 0 - shift} :
    content = NeutralFixation \cup {[stim |-> a, position |-> <<0, y>>]}

IsFeedbackFrame(content) ==
  content \in {Fixation("cross_green"), Fixation("cross_red")}

CueTopFrame ==
  { [stim |-> "cross_black", position |-> <<0, 0>>],
    [stim |-> "cue_top", position |-> <<0, shift>>],
    [stim |-> "box_bottom", position |-> <<0, 0 - shift>>] }

\* Trial n has run through its feedback.
Completed(n) == n < i

CuedUpOnly(n) ==
  Field(trials[n], "cue_up") = TRUE /\ Field(trials[n], "cue_down") = FALSE

\* C4, as claimed: a completed trial with cue_up and not cue_down committed
\* exactly six frames: fixation, cue on top, fixation, target, fixation,
\* feedback.
C4_SixFrames ==
  \A n \in 1..Len(trials) :
    (Completed(n) /\ CuedUpOnly(n)) =>
      LET c == TrialContents(n)
      IN  /\ Len(c) = 6
          /\ c[1] = NeutralFixation
          /\ c[2] = CueTopFrame
          /\ c[3] = NeutralFixation
          /\ IsTargetFrame(c[4])
          /\ c[5] = NeutralFixation
          /\ IsFeedbackFrame(c[6])

\* The frames of a trial with cue_up and not cue_down, in order: whether
\* frame k of the trial shows what the k-th of the seven should.
SeventhsOK(c, k) ==
  CASE k \in {1, 3, 4, 6} -> c[k] = NeutralFixation
    [] k = 2              -> c[k] = CueTopFrame
    [] k = 5              -> IsTargetFrame(c[k])
    [] k = 7              -> IsFeedbackFrame(c[k])
    [] OTHER              -> FALSE

\* C4, amended: the frames such a trial commits are, in order, fixation, cue
\* on top, fixation, fixation again, target, fixation, feedback: the six
\* states in the claimed order with the neutral fixation committed once more
\* right before the target frame (display() commits, then target.present
\* commits); all seven once the trial has run through its feedback.
C4_SevenFrames ==
  \A n \in 1..Len(trials) :
    CuedUpOnly(n) =>
      LET c == TrialContents(n)
      IN  /\ \A k \in 1..Len(c) : SeventhsOK(c, k)
          /\ Completed(n) => Len(c) = 7

C4_Witness ==
  /\ pc = "done"
  /\ Len(trials) = 2
  /\ CuedUpOnly(2)
  /\ Len(TrialContents(2)) = 7
  /\ IsTargetFrame(TrialContents(2)[5])

\* C5: every row added holds the trial's fields, unchanged and in column
\* order, then the response key, then the reaction time; the declared names
\* are the trial's columns, then response_key, then reaction_time.
C5_RowEchoesTrial ==
  /\ SubSeq(data_variable_names, 1, Len(Columns)) = Columns
  /\ SubSeq(data_variable_names, Len(Columns) + 1, Len(data_variable_names))
       = <<"response_key", "reaction_time">>
  /\ \A n \in 1..Len(exp_data) :
       /\ Len(exp_data[n]) = Len(data_variable_names)
       /\ \A c \in 1..Len(Columns) : exp_data[n][c] = trials[n][c]
  /\ pc = "feedback" =>
       /\ exp_data[i][Len(Columns) + 1] = key
       /\ exp_data[i][Len(Columns) + 2] = rt

C5_Witness ==
  /\ pc = "feedback"
  /\ i = 2
  /\ trials[2] = <<FALSE, TRUE, "right", "incong", "up">>
  /\ exp_data[2] = <<FALSE, TRUE, "right", "incong", "up", Some("K_j"), Some(550)>>

AllValid == \A n \in 1..Len(trials) : ValidTrial(trials[n])

\* C6: a session over N valid trials ends with exactly N rows, the n-th the
\* row of the n-th trial; while it runs there is one row for each trial whose
\* response wait is over and none for the others; and no step changes or
\* removes a row that was added.
C6_OneRowPerTrial ==
  /\ [](AllValid =>
          /\ pc = "done" => Len(exp_data) = Len(trials)
          /\ Len(exp_data) = (IF pc = "feedback" THEN i ELSE i - 1)
          /\ \A n \in 1..Len(exp_data) : TrialFieldsOf(exp_data[n]) = trials[n])
  /\ [][AllValid =>
          /\ Len(exp_data') >= Len(exp_data)
          /\ \A n \in 1..Len(exp_data) : exp_data'[n] = exp_data[n]]_vars

C6_Witness ==
  /\ pc = "done"
  /\ AllValid
  /\ Len(trials) = 2
  /\ Len(exp_data) = 2
  /\ exp_data[1] # exp_data[2]

RecognizedKeys == {LEFT_RESPONSE_KEY, RIGHT_RESPONSE_KEY}

NoRecognizedPress == \A n \in 1..Len(presses) : presses[n].key \notin RecognizedKeys

\* C7: a press of a key other than the two response keys is as if
\* no key was pressed: when no response key is pressed during the wait, the
\* row holds response_key = None and reaction_time = None.
C7_UnrecognizedKeyIgnored ==
  (pc = "feedback" /\ NoRecognizedPress) =>
     /\ ResponseKeyOf(exp_data[i]) = None
     /\ ReactionTimeOf(exp_data[i]) = None

\* C8, as claimed: the response wait is over no later than
\* MAX_RESPONSE_DURATION after the target was shown, and no row holds a
\* reaction time above MAX_RESPONSE_DURATION.
C8_WindowFromOnset ==
  /\ pc = "feedback" => sinceOnset[1] <= MAX_RESPONSE_DURATION
  /\ \A n \in 1..Len(exp_data) :
       ReactionTimeOf(exp_data[n]) # None =>
         ReactionTimeOf(exp_data[n])[1] <= MAX_RESPONSE_DURATION

\* C9, as claimed: a trial whose target_position or arrow_direction is not
\* one of the two allowed values commits no frame and adds no row.
C9_InvalidTrialFailsFast ==
  /\ \A n \in 1..Len(frames) : ValidTrial(trials[frames[n].trial])
  /\ \A n \in 1..Len(exp_data) : ValidTrial(trials[n])

HasFeedbackFrame(n) ==
  \E k \in 1..Len(frames) : frames[k].trial = n /\ frames[k].phase = "feedback"

LongestWait == BASELINE_MIN + BASELINE_SPAN

\* C11: with valid trials only, every wait of the loop is bounded, the
\* response wait is over by MAX_RESPONSE_DURATION when no key is pressed, the
\* script is never stuck before its end, and the session reaches its end.
C11_Terminates ==
  /\ [](AllValid =>
          /\ waited <= LongestWait
          /\ pc = "feedback" => waited <= MAX_RESPONSE_DURATION
          /\ (pc = "feedback" /\ presses = <<>>) => waited = MAX_RESPONSE_DURATION
          /\ pc \notin {"error", "hung"})
  /\ (AllValid => <>(pc = "done"))

\* A session of two valid trials, neither answered, at its end.
C11_Witness ==
  /\ pc = "done"
  /\ AllValid
  /\ Len(trials) = 2
  /\ ResponseKeyOf(exp_data[1]) = None
  /\ ResponseKeyOf(exp_data[2]) = None

\* The indices of the feedback frames committed so far.
FeedbackFrames == {n \in 1..Len(frames) : frames[n].phase = "feedback"}

\* C12: two trials of a session with the same arrow_direction and the same
\* recorded key show the same feedback frame, whatever their other fields,
\* their reaction times and their place in the session.
C12_FeedbackDependsOnDirectionAndKey ==
  \A m \in FeedbackFrames, n \in FeedbackFrames :
    LET tm == frames[m].trial
        tn == frames[n].trial
    IN  ( /\ Field(trials[tm], "arrow_direction") = Field(trials[tn], "arrow_direction")
          /\ ResponseKeyOf(exp_data[tm]) = ResponseKeyOf(exp_data[tn]) )
        => frames[m].content = frames[n].content

\* Two 'left' trials that differ in cue, congruency, position and reaction
\* time, both answered with the left key.
C12_Witness ==
  /\ pc = "done"
  /\ trials = << <<TRUE, FALSE, "left", "cong", "up">>,
                 <<FALSE, FALSE, "left", "incong", "down">> >>
  /\ ResponseKeyOf(exp_data[1]) = Some(LEFT_RESPONSE_KEY)
  /\ ResponseKeyOf(exp_data[2]) = Some(LEFT_RESPONSE_KEY)
  /\ ReactionTimeOf(exp_data[1]) # ReactionTimeOf(exp_data[2])
  /\ \A n \in FeedbackFrames : frames[n].content = Fixation("cross_green")
  /\ Cardinality(FeedbackFrames) = 2

\* The arrows a frame shows, as drawn.
ArrowsIn(content) == {d \in content : d.stim \in Arrows}

\* The arrows stimuli shown so far, each with the trial that showed it.
PastTargets ==
  { p \in (1..Len(trials)) \X Arrows :
      \E n \in 1..Len(frames) :
        /\ frames[n].trial = p[1]
        /\ \E d \in frames[n].content : d.stim = p[2] }

PointsTo(arrow) == IF arrow = "<" THEN "left" ELSE "right"
CentralArrow(stim) == ArrowText(stim)[3]
FlankersAgree(stim) == \A k \in {1, 2, 4, 5} : ArrowText(stim)[k] = CentralArrow(stim)
FlankersOppose(stim) == \A k \in {1, 2, 4, 5} : ArrowText(stim)[k] # CentralArrow(stim)

C14_TargetInNamedFrame ==
  [][\A n \in (Len(frames) + 1)..Len(frames') :
       LET tp == Field(trials[frames'[n].trial], "target_position")
       IN  \A d \in ArrowsIn(frames'[n].content) :
             /\ tp = "up" => d.position = FixedPosition("box_top")
             /\ tp = "down" => d.position = FixedPosition("box_bottom")
             /\ tp \in {"up", "down"} => ArrowsIn(frames'[n].content) = {d}]_vars

\* The same stimulus object shown above in the first trial, whose cue was
\* below, and below in the second.
C14_Witness ==
  /\ pc = "done"
  /\ trials = << <<FALSE, TRUE, "right", "incong", "up">>,
                 <<FALSE, TRUE, "both", "incong", "down">> >>
  /\ \E n \in 1..Len(frames) :
       /\ frames[n].trial = 1
       /\ [stim |-> "arrows_incong_right", position |-> <<0, shift>>] \in frames[n].content
  /\ \E n \in 1..Len(frames) :
       /\ frames[n].trial = 2
       /\ [stim |-> "arrows_incong_right", position |-> <<0, 0 - shift>>]
            \in frames[n].content

Shows(content, stim) == \E d \in content : d.stim = stim

\* The stimuli a frame shows, by name; of them the two frames, plain or
\* highlighted, and the crosses.
StimsIn(content) == {d.stim : d \in content}
FramesShown(content) ==
  StimsIn(content) \cap {"box_top", "cue_top", "box_bottom", "cue_bottom"}
CrossesShown(content) ==
  StimsIn(content) \cap {"cross_black", "cross_green", "cross_red"}

\* C15: no step takes back a frame it committed, and every frame a step
\* commits in the cue phase shows the top frame highlighted exactly when the
\* trial's cue_up is true and the bottom frame highlighted exactly when its
\* cue_down is true; a frame committed in any other phase shows both frames
\* plain.
C15_CueOnlyInCuePhase ==
  [][/\ SubSeq(frames', 1, Len(frames)) = frames
     /\ \A n \in (Len(frames) + 1)..Len(frames') :
          LET trial == trials[frames'[n].trial]
          IN  FramesShown(frames'[n].content) =
                IF frames'[n].phase = "cue"
                THEN { IF Field(trial, "cue_up") THEN "cue_top" ELSE "box_top",
                       IF Field(trial, "cue_down") THEN "cue_bottom" ELSE "box_bottom" }
                ELSE {"box_top", "box_bottom"}]_vars

\* A trial cued below only has run: its cue frame showed the cue below, and
\* its six other frames none.
C15_Witness ==
  /\ pc = "done"
  /\ Len(trials) = 1
  /\ Field(trials[1], "cue_up") = FALSE
  /\ Field(trials[1], "cue_down") = TRUE
  /\ Len(frames) = 7
  /\ Shows(frames[2].content, "cue_bottom")
  /\ ~Shows(frames[2].content, "cue_top")
  /\ \A n \in {1, 3, 4, 5, 6, 7} : ~Shows(frames[n].content, "cue_bottom")

LastFrame == frames[Len(frames)]

\* C16: the target stays for TARGET_DISPLAY_DURATION whether or not a key
\* goes down meanwhile; the frame committed after a frame with arrows is
\* the neutral fixation of the post-target blank, which is what the display
\* shows when the response wait begins; and the response wait commits no
\* frame and draws nothing.
C16_TargetPhaseIgnoresKeys ==
  /\ [](pc \in {"blank", "response"} =>
          /\ waited = TARGET_DISPLAY_DURATION
          /\ sinceOnset = Some(TARGET_DISPLAY_DURATION))
  /\ [](\A n \in 1..Len(frames) :
          (ArrowsIn(frames[n].content) # {} /\ n < Len(frames)) =>
             /\ frames[n + 1].phase = "blank"
             /\ frames[n + 1].content = NeutralFixation)
  /\ [](pc = "blank" => ArrowsIn(LastFrame.content) # {})
  /\ [](pc = "response" =>
          LastFrame = [trial |-> i, phase |-> "blank", content |-> NeutralFixation])
  /\ [][pc = "response" => (frames' = frames /\ screen' = screen)]_vars

\* A key went down while the target was shown; the blank has replaced the
\* target after the full duration and the response wait is about to begin.
C16_Witness ==
  /\ pc = "response"
  /\ pending = <<LEFT_RESPONSE_KEY>>
  /\ waited = TARGET_DISPLAY_DURATION
  /\ LastFrame.content = NeutralFixation
  /\ ArrowsIn(frames[Len(frames) - 1].content) # {}

\* What claim C17 says of every phase but the baseline: its wait lasts the
\* same in every trial.
FixedPhaseDurations ==
  /\ pc = "gap" => waited = CUE_DISPLAY_DURATION
  /\ pc = "target" => waited = CUE_TARGET_INTERVAL
  /\ pc \in {"blank", "response"} => waited = TARGET_DISPLAY_DURATION
  /\ (pc \in {"baseline", "end", "done"} /\ i > 1) => waited = FEEDBACK_DURATION

\* The baseline is drawn in each trial: whatever came before, each draw can
\* come out.
DrawnAnew ==
  pc = "baseline" =>
    \A x \in JitterChoices : ENABLED (Baseline /\ waited' = BaselineWait(x))

\* C17, as claimed: the baseline of every trial lasts at least 1500 ms and
\* less than 3500 ms, and is drawn in each trial; the other phases last the
\* same in every trial.
C17_BaselineBelow3500 ==
  /\ pc = "cue" => (BASELINE_MIN <= waited /\ waited < BASELINE_MIN + BASELINE_SPAN)
  /\ DrawnAnew
  /\ FixedPhaseDurations

\* C17, amended: the baseline lasts at least 1500 ms and at most 3500 ms;
\* 3500 itself comes out when the draw is the largest float below 2000.
C17_BaselineUpTo3500 ==
  /\ pc = "cue" => (BASELINE_MIN <= waited /\ waited <= BASELINE_MIN + BASELINE_SPAN)
  /\ DrawnAnew
  /\ FixedPhaseDurations

\* The second trial's baseline came out at its longest.
C17_Witness ==
  /\ pc = "cue"
  /\ i = 2
  /\ waited = BASELINE_MIN + BASELINE_SPAN

\* C18: in every row the response key is None exactly when the reaction time
\* is None, and a trial that was shown the positive cross has a reaction time.
C18_KeyAndTimeTogether ==
  /\ \A n \in 1..Len(exp_data) :
       ResponseKeyOf(exp_data[n]) = None <=> ReactionTimeOf(exp_data[n]) = None
  /\ \A n \in FeedbackFrames :
       Shows(frames[n].content, "cross_green") =>
         ReactionTimeOf(exp_data[frames[n].trial]) # None

\* A trial answered correctly and one not answered at all.
C18_Witness ==
  /\ pc = "done"
  /\ Len(exp_data) = 2
  /\ ReactionTimeOf(exp_data[1]) = Some(550)
  /\ Shows(frames[7].content, "cross_green")
  /\ ResponseKeyOf(exp_data[2]) = None
  /\ ReactionTimeOf(exp_data[2]) = None

\* C19: a frame shows the green or the red cross only in the feedback phase:
\* every frame a step commits in another phase shows the black cross and no
\* other, and the first frame of every trial is the neutral fixation with no
\* cue, also right after the feedback frame of the trial before.
C19_ColourOnlyInFeedback ==
  [][\A n \in (Len(frames) + 1)..Len(frames') :
       /\ frames'[n].phase # "feedback" =>
            CrossesShown(frames'[n].content) = {"cross_black"}
       /\ (n = 1 \/ frames'[n - 1].phase = "feedback") =>
            /\ frames'[n].phase = "baseline"
            /\ frames'[n].content = NeutralFixation
       /\ (n = 1 \/ frames'[n - 1].trial # frames'[n].trial) =>
            frames'[n].content = NeutralFixation]_vars

\* The second trial has begun: the frame before its first is the green
\* feedback of the first trial, and its first is neutral.
C19_Witness ==
  /\ pc = "cue"
  /\ i = 2
  /\ frames[Len(frames) - 1].content = Fixation("cross_green")
  /\ LastFrame = [trial |-> 2, phase |-> "baseline", content |-> NeutralFixation]

====
